---- MODULE Spec2Model ----
(***************************************************************************)
(* Model of stock_analyzer.py: the metrics engine (calculate_metrics), the *)
(* loader wrapper (get_stock_data), the display helpers and the top-level  *)
(* Streamlit script ("main application logic").                            *)
(*                                                                         *)
(* Representation.                                                         *)
(*  - A DataFrame is a record [kind |-> "df", index, cols]; index is the   *)
(*    sequence of dates and cols maps a column name to its sequence of     *)
(*    cells.  Python's None is the record None.                            *)
(*  - Rows are 0-indexed in the source; row i is position i + 1 here.      *)
(*  - A derived float cell is a record [has, num, den]: has = FALSE is     *)
(*    pandas' NaN ("no value"); otherwise the cell is the rational         *)
(*    num/den in lowest terms with den > 0 (exact arithmetic, no rounding).*)
(*  - A Volatility cell is [has, lo, hi]: when has, it stands for          *)
(*    std(Daily_Return rows lo..hi, ddof = 1) * sqrt(252); the square root *)
(*    is irrational, so the value is kept symbolic by its window.          *)
(*  - Strings that are case-converted are sequences of character codes.    *)
(***************************************************************************)
EXTENDS Integers, Sequences, FiniteSets, TLC

VARIABLES
  pc,            \* position of the script / request state
  ticker_input,  \* st.text_input value (sequence of character codes)
  time_period,   \* st.selectbox value
  show_returns,  \* st.checkbox "Returns Analysis"
  hist_data,     \* the script's hist_data (None, or a DataFrame)
  stock_info,    \* the script's stock_info (None, or the set of keys of the info dict)
  screen,        \* what the run has rendered so far
  fault,         \* the unhandled exception that ended the run, or "none"
  loaded,        \* history: the bars the data provider produced for this request
  cause,         \* history: what happened inside the loader
  loaderCalls,   \* history: list of (ticker, period) arguments get_stock_data received
  visited        \* history: request states entered since the last Idle

vars == <<pc, ticker_input, time_period, show_returns, hist_data, stock_info,
          screen, fault, loaded, cause, loaderCalls, visited>>

----------------------------------------------------------------------------
(* Bounds of the explored inputs *)

MaxShort == 3        \* every close sequence up to this length is enumerated
Margin == 1          \* long series have lengths within Margin of each window
MaxTickerLen == 1    \* length of the typed ticker

(* Program constants *)

WINDOW_MA_SHORT == 20
WINDOW_MA_MID == 50
WINDOW_MA_LONG == 200
WINDOW_VOL == 20
PeriodDefaultIndex == 3

Windows == {WINDOW_MA_SHORT, WINDOW_MA_MID, WINDOW_MA_LONG}
PERIOD_OPTIONS == <<"1mo", "3mo", "6mo", "1y", "2y", "5y", "max">>
Periods == {PERIOD_OPTIONS[j] : j \in 1..Len(PERIOD_OPTIONS)}
RawColumns == {"Open", "High", "Low", "Close", "Volume"}
DerivedColumns == {"Daily_Return", "Cumulative_Return", "MA_20", "MA_50", "MA_200", "Volatility"}
MetaFields == {"longName", "sector", "industry", "country", "marketCap",
               "fiftyTwoWeekHigh", "fiftyTwoWeekLow", "beta"}

----------------------------------------------------------------------------
(* Exact rational cells *)

Abs(x) == IF x < 0 THEN -x ELSE x

RECURSIVE GCD(_, _)
GCD(a, b) == IF b = 0 THEN a ELSE GCD(b, a % b)

NaN == [has |-> FALSE, num |-> 0, den |-> 1]

Rat(n, d) ==
  LET g == GCD(Abs(n), Abs(d))
      s == IF d < 0 THEN -1 ELSE 1
  IN [has |-> TRUE, num |-> (s * n) \div g, den |-> (s * d) \div g]

One == Rat(1, 1)

\* float arithmetic with NaN propagation
Add(x, y) == IF x.has /\ y.has THEN Rat(x.num * y.den + y.num * x.den, x.den * y.den) ELSE NaN
Sub(x, y) == IF x.has /\ y.has THEN Rat(x.num * y.den - y.num * x.den, x.den * y.den) ELSE NaN
Mul(x, y) == IF x.has /\ y.has THEN Rat(x.num * y.num, x.den * y.den) ELSE NaN

----------------------------------------------------------------------------
(* DataFrames *)

None == [kind |-> "None"]

IsDF(df) == df.kind = "df"

NRows(df) == Len(df.index)

IsEmpty(df) == NRows(df) = 0

\* s[lo] + ... + s[hi]; exact integer sums do not depend on the grouping
RECURSIVE SumRange(_, _, _)
SumRange(s, lo, hi) ==
  IF lo > hi THEN 0
  ELSE IF lo = hi THEN s[lo]
  ELSE LET mid == (lo + hi) \div 2
       IN SumRange(s, lo, mid) + SumRange(s, mid + 1, hi)

Max(a, b) == IF a > b THEN a ELSE b

\* Series.pct_change(): no value on the first row, then s[i]/s[i-1] - 1
pct_change(s) ==
  [p \in 1..Len(s) |-> IF p = 1 THEN NaN ELSE Rat(s[p] - s[p - 1], s[p - 1])]

\* (1 + Series)
one_plus(s) == [p \in 1..Len(s) |-> Add(One, s[p])]

\* Series - 1
minus_one(s) == [p \in 1..Len(s) |-> Sub(s[p], One)]

\* Series.cumprod(): running product, left to right, that skips NaN cells
\* (skipna) and leaves them NaN in the output.  cumprod_scan handles rows
\* lo..hi given the running product before row lo and returns the output
\* cells of those rows with the running product after row hi.
RECURSIVE cumprod_scan(_, _, _, _)
cumprod_scan(s, lo, hi, run) ==
  IF lo = hi
  THEN IF s[lo].has
       THEN [out |-> <<Mul(run, s[lo])>>, run |-> Mul(run, s[lo])]
       ELSE [out |-> <<NaN>>, run |-> run]
  ELSE LET mid == (lo + hi) \div 2
           L == cumprod_scan(s, lo, mid, run)
           R == cumprod_scan(s, mid + 1, hi, L.run)
       IN [out |-> L.out \o R.out, run |-> R.run]

\* variant: NaN is not skipped, it poisons the running product (numpy's cumprod)
cumprod_noskip(s) ==
  IF Len(s) = 0 THEN <<>>
  ELSE [p \in 1..Len(s) |->
          IF \E q \in 1..p : ~s[q].has THEN NaN ELSE cumprod_scan(s, 1, p, One).run]

cumprod(s) == IF Len(s) = 0 THEN <<>> ELSE cumprod_scan(s, 1, Len(s), One).out

\* Series.rolling(window).mean() over a column of numbers: min_periods
\* defaults to the window, the window of row p is rows p-window+1..p clipped
\* at the start of the series
\* variant: min_periods = 1, a mean over whatever part of the window exists
rolling_mean_min1(s, window) ==
  [p \in 1..Len(s) |->
     LET lo == Max(1, p - window + 1)
         nobs == p - lo + 1
     IN IF nobs >= 1 THEN Rat(SumRange(s, lo, p), nobs) ELSE NaN]

rolling_mean(s, window) ==
  [p \in 1..Len(s) |->
     LET lo == Max(1, p - window + 1)
         nobs == p - lo + 1
     IN IF nobs >= window THEN Rat(SumRange(s, lo, p), nobs) ELSE NaN]

\* Series.rolling(window).std() * np.sqrt(252) over a column of float cells:
\* only the non-NaN cells of the window count as observations
\* variant: the rows of the window are counted, NaN or not
rolling_std_rowcount(s, window) ==
  [p \in 1..Len(s) |->
     LET lo == Max(1, p - window + 1)
         nobs == p - lo + 1
     IN IF nobs >= window THEN [has |-> TRUE, lo |-> lo, hi |-> p]
                          ELSE [has |-> FALSE, lo |-> 0, hi |-> 0]]

rolling_std_annualized(s, window) ==
  [p \in 1..Len(s) |->
     LET lo == Max(1, p - window + 1)
         nobs == Cardinality({q \in lo..p : s[q].has})
     IN IF nobs >= window THEN [has |-> TRUE, lo |-> lo, hi |-> p]
                          ELSE [has |-> FALSE, lo |-> 0, hi |-> 0]]

WithColumn(df, name, col) ==
  [df EXCEPT !.cols = [c \in (DOMAIN df.cols) \cup {name} |->
                         IF c = name THEN col ELSE df.cols[c]]]

\* the column assignments of calculate_metrics, in source order
enrich_columns(df) ==
  LET d1 == WithColumn(df, "Daily_Return", pct_change(df.cols["Close"]))
      d2 == WithColumn(d1, "Cumulative_Return",
                       minus_one(cumprod(one_plus(d1.cols["Daily_Return"]))))
      d3 == WithColumn(d2, "MA_20", rolling_mean(d2.cols["Close"], WINDOW_MA_SHORT))
      d4 == WithColumn(d3, "MA_50", rolling_mean(d3.cols["Close"], WINDOW_MA_MID))
      d5 == WithColumn(d4, "MA_200", rolling_mean(d4.cols["Close"], WINDOW_MA_LONG))
      d6 == WithColumn(d5, "Volatility",
                       rolling_std_annualized(d5.cols["Daily_Return"], WINDOW_VOL))
  IN d6

\* variant: the rows without a Daily_Return are dropped (a dropna() after pct_change)
calculate_metrics_dropna(df) ==
  IF IsEmpty(df) THEN None
  ELSE LET e == enrich_columns(df)
       IN [e EXCEPT !.index = Tail(e.index),
                    !.cols = [c \in DOMAIN e.cols |-> Tail(e.cols[c])]]

\* variant: no df.empty guard
calculate_metrics_noguard(df) == enrich_columns(df)

calculate_metrics(df) == IF IsEmpty(df) THEN None ELSE enrich_columns(df)

----------------------------------------------------------------------------
(* Inputs: what the data provider can hand to the loader *)

ShortCloses == {2, 3}
Patterns == {"flat", "saw", "zig"}

\* trading calendar: five trading days, then a two-day gap
DateOf(i) == i + 2 * (i \div 5)

PatternClose(pat, i) ==
  CASE pat = "flat" -> 10
    [] pat = "saw" -> 10 + (i % 7)
    [] pat = "zig" -> 10 + ((3 * i) % 5)

Frame(closes) ==
  LET n == Len(closes) IN
  [kind |-> "df",
   index |-> [p \in 1..n |-> DateOf(p - 1)],
   cols |-> [c \in RawColumns |->
              CASE c = "Close" -> closes
                [] c = "Open" -> [p \in 1..n |-> IF p = 1 THEN closes[1] ELSE closes[p - 1]]
                [] c = "High" -> [p \in 1..n |-> closes[p] + 1]
                [] c = "Low" -> [p \in 1..n |-> closes[p] - 1]
                [] c = "Volume" -> [p \in 1..n |-> 500000 * (p % 3)]]]

EmptyFrame == Frame(<<>>)

ShortSeries == UNION {[1..n -> ShortCloses] : n \in 1..MaxShort}

LongLengths == UNION {{k + d : d \in (-Margin)..Margin} : k \in Windows \cup {WINDOW_VOL + 1}}

LongSeries == {[p \in 1..n |-> PatternClose(pat, p - 1)] : n \in LongLengths, pat \in Patterns}

\* every frame the engine is called on directly
EngineFrames == {EmptyFrame} \cup {Frame(s) : s \in ShortSeries \cup LongSeries}

\* frames the loader returns to the script
FullHistory == Frame([p \in 1..(WINDOW_MA_LONG + 1) |-> PatternClose("saw", p - 1)])
ProbeHistory == Frame(<<2, 3>>)
LoaderFrames == {Frame(s) : s \in ShortSeries} \cup {FullHistory}

Dict(keys) == [kind |-> "dict", keys |-> keys]

\* what the provider does during one call of the loader
Worlds ==
  {[history_raises |-> TRUE, info_raises |-> FALSE, found |-> FALSE,
    hist |-> EmptyFrame, info |-> Dict({})]}
  \cup {[history_raises |-> FALSE, info_raises |-> FALSE, found |-> f,
         hist |-> EmptyFrame, info |-> Dict({})] : f \in BOOLEAN}
  \cup {[history_raises |-> FALSE, info_raises |-> TRUE, found |-> TRUE,
         hist |-> ProbeHistory, info |-> Dict({})]}
  \cup {[history_raises |-> FALSE, info_raises |-> FALSE, found |-> TRUE,
         hist |-> h, info |-> Dict(k)] : h \in LoaderFrames, k \in {{}, MetaFields}}
  \cup {[history_raises |-> FALSE, info_raises |-> FALSE, found |-> TRUE,
         hist |-> ProbeHistory, info |-> Dict(k)] : k \in SUBSET MetaFields}

\* why a request with this provider behaviour has no data (history variable only)
CauseOf(w) ==
  IF w.history_raises \/ w.info_raises THEN "TransientFetchError"
  ELSE IF ~w.found THEN "InvalidTicker"
  ELSE IF IsEmpty(w.hist) THEN "EmptyHistory"
  ELSE "ok"

----------------------------------------------------------------------------
(* Strings *)

TickerChars == {97, 65}      \* "a", "A"
Tickers == UNION {[1..n -> TickerChars] : n \in 0..MaxTickerLen}

\* str.upper() on one character code, then on a string
upper_char(c) == IF 97 <= c /\ c <= 122 THEN c - 32 ELSE c
upper(s) == [p \in 1..Len(s) |-> upper_char(s[p])]

\* variant: the ticker is not tested
Truthy_always(s) == TRUE

\* bool(str)
Truthy(s) == Len(s) > 0

----------------------------------------------------------------------------
(* Loader and display helpers *)

get_stock_data(ticker, period, w) ==
  IF w.history_raises \/ w.info_raises
  THEN [stock |-> None, hist |-> None, info |-> None]
  ELSE [stock |-> [kind |-> "Ticker", ticker |-> ticker], hist |-> w.hist, info |-> w.info]

\* Series.iloc[k] with Python's negative positions
InBounds(s, k) == -Len(s) <= k /\ k < Len(s)
iloc(s, k) == IF k < 0 THEN s[Len(s) + k + 1] ELSE s[k + 1]

display_company_info(info) == {f \in MetaFields : f \in info.keys}

\* the positions display_key_metrics reads from df['Close']
KeyMetricPositions == {-1, -2, 0}

display_key_metrics(df, info) ==
  LET close == df.cols["Close"] IN
  IF \E k \in KeyMetricPositions : ~InBounds(close, k)
  THEN [fault |-> "IndexError", shown |-> {}]
  ELSE
    LET current_price == iloc(close, -1)
        price_change == iloc(close, -1) - iloc(close, -2)
        price_change_pct == Mul(Rat(price_change, iloc(close, -2)), Rat(100, 1))
        total_return == Mul(Rat(iloc(close, -1) - iloc(close, 0), iloc(close, 0)), Rat(100, 1))
        avg_volume == Rat(SumRange(df.cols["Volume"], 1, NRows(df)), NRows(df))
        volatility == IF "Volatility" \in DOMAIN df.cols
                      THEN iloc(df.cols["Volatility"], -1)
                      ELSE [has |-> TRUE, lo |-> 0, hi |-> 0]
    IN [fault |-> "none",
        shown |-> {[current_price |-> current_price,
                    price_change_pct |-> price_change_pct,
                    total_return |-> total_return,
                    avg_volume |-> avg_volume,
                    volatility |-> volatility]}]

\* the Statistical Summary table: which entries are numbers rather than nan
summary_stats(df) ==
  LET r == df.cols["Daily_Return"]
      nobs == Cardinality({p \in 1..Len(r) : r[p].has})
  IN [nobs |-> nobs, mean_has |-> nobs >= 1, std_has |-> nobs >= 2,
      min_has |-> nobs >= 1, max_has |-> nobs >= 1, sharpe_has |-> nobs >= 2]

ChartTitle(chart, ticker) == [chart |-> chart, ticker |-> ticker]

FileName(ticker, period) == [ticker |-> ticker, period |-> period, suffix |-> "_data.csv"]

Message(level, text, ticker) == [level |-> level, text |-> text, ticker |-> ticker]

WarningMissing == Message("warning", "Please enter a stock ticker or company name", <<>>)
ErrorUnable(ticker) == Message("error", "Unable to fetch data", ticker)
InfoTip == Message("info", "Tip: use the official ticker symbol", <<>>)
Spinner(ticker) == Message("spinner", "Fetching data", ticker)

\* the else-branch of the script: nothing usable came back
fetch_failed_messages(ticker) == {ErrorUnable(ticker), InfoTip}

\* variant: the blank submission falls into the fetch-failure branch
missing_input_as_fetch_failure == fetch_failed_messages(<<>>)

\* the elif-branch of the script: nothing was typed
missing_input_messages == {WarningMissing}

\* the script's test of the loader's result
usable_history(hist) == hist # None /\ ~IsEmpty(hist)

BlankScreen ==
  [messages |-> {}, company |-> {}, key_metrics |-> {}, charts |-> {},
   summary |-> {}, download |-> {}]

----------------------------------------------------------------------------
(* The script: one request at a time *)

ScriptInit ==
  /\ pc = "Idle"
  /\ ticker_input = <<>>
  /\ time_period = PERIOD_OPTIONS[PeriodDefaultIndex + 1]
  /\ show_returns = TRUE
  /\ hist_data = None
  /\ stock_info = None
  /\ screen = BlankScreen
  /\ fault = "none"
  /\ loaded = None
  /\ cause = "none"
  /\ loaderCalls = <<>>
  /\ visited = {"Idle"}

\* calculate_metrics called directly on a frame, outside the script
EngineInit ==
  /\ pc = "engine_call"
  /\ ticker_input = <<>>
  /\ time_period = PERIOD_OPTIONS[PeriodDefaultIndex + 1]
  /\ show_returns = TRUE
  /\ hist_data \in EngineFrames
  /\ stock_info = None
  /\ screen = BlankScreen
  /\ fault = "none"
  /\ loaded = hist_data
  /\ cause = "none"
  /\ loaderCalls = <<>>
  /\ visited = {}

Init == ScriptInit \/ EngineInit

\* the user changes the sidebar widgets; the script reruns with the button
\* not pressed and renders nothing
EditForm ==
  /\ pc = "Idle"
  /\ \E t \in Tickers, per \in Periods, sr \in BOOLEAN :
       /\ <<t, per, sr>> # <<ticker_input, time_period, show_returns>>
       /\ ticker_input' = t
       /\ time_period' = per
       /\ show_returns' = sr
  /\ UNCHANGED <<pc, hist_data, stock_info, screen, fault, loaded, cause,
                 loaderCalls, visited>>

\* "Analyze Stock" pressed with a ticker typed: the spinner is shown and
\* get_stock_data is entered
SubmitTicker ==
  /\ pc = "Idle"
  /\ Truthy(ticker_input)
  /\ pc' = "Fetching"
  /\ screen' = [screen EXCEPT !.messages = {Spinner(ticker_input)}]
  /\ loaderCalls' = Append(loaderCalls, <<upper(ticker_input), time_period>>)
  /\ visited' = visited \cup {"Fetching"}
  /\ UNCHANGED <<ticker_input, time_period, show_returns, hist_data, stock_info,
                 fault, loaded, cause>>

\* "Analyze Stock" pressed with nothing typed: the elif branch
SubmitBlank ==
  /\ pc = "Idle"
  /\ ~Truthy(ticker_input)
  /\ pc' = "Failed"
  /\ screen' = [screen EXCEPT !.messages = missing_input_messages]
  /\ cause' = "MissingInput"
  /\ visited' = visited \cup {"Failed"}
  /\ UNCHANGED <<ticker_input, time_period, show_returns, hist_data, stock_info,
                 fault, loaded, loaderCalls>>

\* get_stock_data returns and the script tests what it got
LoaderReturns ==
  /\ pc = "Fetching"
  /\ \E w \in Worlds :
       LET got == get_stock_data(upper(ticker_input), time_period, w)
           usable == usable_history(got.hist)
       IN /\ hist_data' = got.hist
          /\ stock_info' = got.info
          /\ loaded' = IF w.history_raises THEN None ELSE w.hist
          /\ cause' = CauseOf(w)
          /\ pc' = IF usable THEN "Enriching" ELSE "Failed"
          /\ visited' = visited \cup {IF usable THEN "Enriching" ELSE "Failed"}
          /\ screen' = [screen EXCEPT !.messages =
                          IF usable THEN {} ELSE fetch_failed_messages(ticker_input)]
  /\ UNCHANGED <<ticker_input, time_period, show_returns, fault, loaderCalls>>

\* the then-branch: metrics, company information, key metrics, charts,
\* summary table and export, up to the first unhandled exception
Analyze ==
  /\ pc = "Enriching"
  /\ LET df == calculate_metrics(hist_data)
         company == IF stock_info.keys # {} THEN display_company_info(stock_info) ELSE {}
         km == display_key_metrics(df, stock_info)
         T == upper(ticker_input)
     IN /\ hist_data' = df
        /\ IF km.fault # "none"
           THEN /\ fault' = km.fault
                /\ pc' = "Crashed"
                /\ visited' = visited \cup {"Crashed"}
                /\ screen' = [screen EXCEPT !.company = company]
           ELSE /\ fault' = "none"
                /\ pc' = "Ready"
                /\ visited' = visited \cup {"Ready"}
                /\ screen' =
                     [screen EXCEPT
                        !.company = company,
                        !.key_metrics = km.shown,
                        !.charts = {ChartTitle("price", T)} \cup
                                   (IF show_returns
                                    THEN {ChartTitle("returns", T), ChartTitle("volatility", T)}
                                    ELSE {}),
                        !.summary = IF show_returns THEN {summary_stats(df)} ELSE {},
                        !.download = {FileName(ticker_input, time_period)}]
  /\ UNCHANGED <<ticker_input, time_period, show_returns, stock_info, loaded, cause,
                 loaderCalls>>

\* any later interaction reruns the script from the top: the previous
\* request's output is gone, the widgets keep their values
NewRequest ==
  /\ pc \in {"Ready", "Failed", "Crashed"}
  /\ pc' = "Idle"
  /\ hist_data' = None
  /\ stock_info' = None
  /\ screen' = BlankScreen
  /\ fault' = "none"
  /\ loaded' = None
  /\ cause' = "none"
  /\ loaderCalls' = <<>>
  /\ visited' = {"Idle"}
  /\ UNCHANGED <<ticker_input, time_period, show_returns>>

\* the direct call returns
EngineReturn ==
  /\ pc = "engine_call"
  /\ hist_data' = calculate_metrics(hist_data)
  /\ pc' = "engine_return"
  /\ UNCHANGED <<ticker_input, time_period, show_returns, stock_info, screen, fault,
                 loaded, cause, loaderCalls, visited>>

Next ==
  \/ EditForm
  \/ SubmitTicker
  \/ SubmitBlank
  \/ LoaderReturns
  \/ Analyze
  \/ NewRequest
  \/ EngineReturn

Spec == Init /\ [][Next]_vars

----------------------------------------------------------------------------
(* Properties of the metrics engine *)

\* calculate_metrics has returned for the bars in `loaded` (directly, or
\* inside a request) and produced a table
Enriched ==
  /\ pc \in {"Ready", "Crashed", "engine_return"}
  /\ IsDF(loaded)
  /\ ~IsEmpty(loaded)

StrictlyAscending(s) == \A p \in 1..(Len(s) - 1) : s[p] < s[p + 1]

AllPositive(s) == \A p \in 1..Len(s) : s[p] > 0

MAColumn(k) ==
  CASE k = WINDOW_MA_SHORT -> "MA_20"
    [] k = WINDOW_MA_MID -> "MA_50"
    [] k = WINDOW_MA_LONG -> "MA_200"

\* C1: for a non-empty, strictly date-ascending bar sequence calculate_metrics
\* returns a table with the same number of rows, the same dates in the same
\* order and unchanged Open/High/Low/Close/Volume on every row; the only
\* change is the six added columns, one cell per row.
C1_RowsAndRawColumnsPreserved ==
  (Enriched /\ StrictlyAscending(loaded.index)) =>
     /\ IsDF(hist_data)
     /\ NRows(hist_data) = NRows(loaded)
     /\ hist_data.index = loaded.index
     /\ DOMAIN hist_data.cols = RawColumns \cup DerivedColumns
     /\ \A c \in RawColumns : hist_data.cols[c] = loaded.cols[c]
     /\ \A c \in DerivedColumns : Len(hist_data.cols[c]) = NRows(loaded)

C1_Witness ==
  /\ pc = "Ready"
  /\ NRows(loaded) > WINDOW_MA_LONG
  /\ NRows(hist_data) = NRows(loaded)
  /\ "Volatility" \in DOMAIN hist_data.cols

\* C2: for every k in {20, 50, 200} and every row i (0-indexed), MA_k[i] has
\* a value iff i - k + 1 >= 0, and then it is the arithmetic mean of the k
\* closes close[i-k+1..i]; a series shorter than k has no MA_k value at all.
C2_MovingAverageFullWindowOnly ==
  Enriched =>
    \A k \in Windows :
      LET ma == hist_data.cols[MAColumn(k)]
          close == loaded.cols["Close"]
          n == NRows(loaded)
      IN /\ \A i \in 0..(n - 1) :
              /\ ma[i + 1].has <=> (i - k + 1 >= 0)
              /\ ma[i + 1].has =>
                   /\ ma[i + 1].den > 0
                   /\ ma[i + 1].num * k = ma[i + 1].den * SumRange(close, i - k + 2, i + 1)
         /\ n < k => \A i \in 0..(n - 1) : ~ma[i + 1].has

C2_Witness ==
  /\ pc = "engine_return"
  /\ IsDF(hist_data)
  /\ NRows(hist_data) = WINDOW_MA_LONG + 1
  /\ ~hist_data.cols["MA_200"][WINDOW_MA_LONG - 1].has
  /\ hist_data.cols["MA_200"][WINDOW_MA_LONG].has
  /\ hist_data.cols["MA_200"][WINDOW_MA_LONG].num
       # hist_data.cols["MA_200"][WINDOW_MA_LONG + 1].num
  /\ ~hist_data.cols["MA_50"][WINDOW_MA_MID - 1].has
  /\ hist_data.cols["MA_20"][WINDOW_MA_SHORT].has

\* C3: with all closes positive, Volatility[i] (0-indexed) has a value iff
\* i >= 20: rows 0..19 have none, and a series of 20 or fewer bars has none.
C3_VolatilityNeedsTwentyReturns ==
  (Enriched /\ AllPositive(loaded.cols["Close"])) =>
    LET vol == hist_data.cols["Volatility"]
        n == NRows(loaded)
    IN /\ \A i \in 0..(n - 1) : vol[i + 1].has <=> (i >= WINDOW_VOL)
       /\ \A i \in 0..(n - 1) :
            vol[i + 1].has => (vol[i + 1].hi = i + 1 /\ vol[i + 1].lo = i + 2 - WINDOW_VOL)
       /\ n <= WINDOW_VOL => \A i \in 0..(n - 1) : ~vol[i + 1].has

C3_Witness ==
  /\ pc = "engine_return"
  /\ IsDF(hist_data)
  /\ NRows(hist_data) = WINDOW_VOL + 1
  /\ ~hist_data.cols["Volatility"][WINDOW_VOL].has
  /\ hist_data.cols["Volatility"][WINDOW_VOL + 1].has

\* C4: with all closes positive, Daily_Return and Cumulative_Return have no
\* value at row 0; at every row i >= 1 Daily_Return[i] = close[i]/close[i-1] - 1
\* and the compounded Cumulative_Return[i] equals close[i]/close[0] - 1
\* exactly; the Total Return shown for a finished request is, as a
\* percentage, the last row's Cumulative_Return.
C4_CumulativeReturnMatchesPrices ==
  (Enriched /\ AllPositive(loaded.cols["Close"])) =>
    LET dr == hist_data.cols["Daily_Return"]
        cr == hist_data.cols["Cumulative_Return"]
        close == loaded.cols["Close"]
        n == NRows(loaded)
    IN /\ ~dr[1].has
       /\ ~cr[1].has
       /\ \A i \in 1..(n - 1) :
            /\ dr[i + 1].has
            /\ dr[i + 1].num * close[i] = dr[i + 1].den * (close[i + 1] - close[i])
            /\ cr[i + 1].has
            /\ cr[i + 1].num * close[1] = cr[i + 1].den * (close[i + 1] - close[1])
       /\ pc = "Ready" =>
            \A m \in screen.key_metrics :
              /\ m.total_return.has
              /\ m.total_return.num * cr[n].den = 100 * cr[n].num * m.total_return.den

C4_Witness ==
  /\ pc = "Ready"
  /\ NRows(hist_data) >= 3
  /\ hist_data.cols["Cumulative_Return"][NRows(hist_data)].has
  /\ hist_data.cols["Cumulative_Return"][NRows(hist_data)].num # 0
  /\ hist_data.cols["Cumulative_Return"][2] # hist_data.cols["Cumulative_Return"][3]
  /\ screen.key_metrics # {}

\* C5: on an empty bar sequence calculate_metrics returns the "no data"
\* result (None, no derived column), and a request whose loader returned an
\* empty history ends in Failed with the error message: it never enters
\* Enriching or Ready, raises nothing, and shows no metrics, summary table or
\* export.
C5_EmptyHistoryIsNoData ==
  (IsDF(loaded) /\ IsEmpty(loaded) /\ pc # "engine_call") =>
     \/ /\ pc = "engine_return"
        /\ hist_data = None
     \/ /\ pc = "Failed"
        /\ fault = "none"
        /\ ErrorUnable(ticker_input) \in screen.messages
        /\ visited = {"Idle", "Fetching", "Failed"}
        /\ DOMAIN hist_data.cols = RawColumns
        /\ screen.key_metrics = {}
        /\ screen.summary = {}
        /\ screen.charts = {}
        /\ screen.download = {}

C5_Witness ==
  /\ pc = "Failed"
  /\ cause = "EmptyHistory"
  /\ IsDF(loaded)
  /\ IsEmpty(loaded)
  /\ screen.messages # {}

----------------------------------------------------------------------------
(* Properties of a request *)

Terminal == pc \in {"Ready", "Failed", "Crashed"}

FailReasons == {"MissingInput", "InvalidTicker", "EmptyHistory", "TransientFetchError"}

\* what a message says, apart from the ticker quoted in it
Kinds(msgs) == {[level |-> m.level, text |-> m.text] : m \in msgs}

\* the message kinds the script renders for a request typed as ticker t
\* that fails for reason r
KindsShownFor(r, t) ==
  IF r = "MissingInput" THEN Kinds(missing_input_messages)
  ELSE UNION {Kinds(fetch_failed_messages(t)) :
                w \in {v \in Worlds :
                         /\ CauseOf(v) = r
                         /\ ~usable_history(get_stock_data(upper(t), time_period, v).hist)}}

\* C6 (as claimed): a request whose loader returns exactly one bar completes
\* in Ready without an unhandled fault, with Daily_Return and
\* Cumulative_Return empty on every row and the summary statistics reported
\* as "no value".
C6_SingleBarReachesReady ==
  (pc \in {"Ready", "Crashed"} /\ NRows(loaded) = 1) =>
     /\ pc = "Ready"
     /\ fault = "none"
     /\ ~hist_data.cols["Daily_Return"][1].has
     /\ ~hist_data.cols["Cumulative_Return"][1].has
     /\ \A st \in screen.summary : ~st.mean_has /\ ~st.std_has /\ ~st.sharpe_has

\* C7 (as claimed): every Failed request shows a message that identifies its
\* reason, no other reason producing the same message, and the loader was
\* called at most once.
C7_MessagePerReason ==
  pc = "Failed" =>
     /\ screen.messages # {}
     /\ Len(loaderCalls) <= 1
     /\ \A r \in FailReasons \ {cause} :
          KindsShownFor(r, ticker_input) # Kinds(screen.messages)

\* C7 (amended): every Failed request shows a message and the loader was
\* called at most once; the MissingInput warning differs from the message of
\* every fetch failure, while InvalidTicker, EmptyHistory and
\* TransientFetchError all show one and the same error and tip.
C7_MissingInputDistinctFetchFailuresShared ==
  pc = "Failed" =>
     /\ screen.messages # {}
     /\ Len(loaderCalls) <= 1
     /\ cause \in FailReasons
     /\ cause = "MissingInput" =>
          \A r \in FailReasons \ {cause} :
            KindsShownFor(r, ticker_input) # Kinds(screen.messages)
     /\ cause # "MissingInput" =>
          /\ screen.messages = {ErrorUnable(ticker_input), InfoTip}
          /\ KindsShownFor("MissingInput", ticker_input) # Kinds(screen.messages)
          /\ \A r \in FailReasons \ {"MissingInput"} :
               KindsShownFor(r, ticker_input) = Kinds(screen.messages)

C7_Witness ==
  /\ pc = "Failed"
  /\ cause = "TransientFetchError"
  /\ Len(loaderCalls) = 1
  /\ ErrorUnable(ticker_input) \in screen.messages

C9_MetadataNeverFailsRequest ==
  (Terminal /\ IsDF(loaded) /\ ~IsEmpty(loaded)) =>
     /\ pc = "Ready"
     /\ IsDF(hist_data)
     /\ screen.company = stock_info.keys

\* C10 (as claimed): the loader argument, every chart title and the ticker
\* part of the export file name are the uppercase form of the typed ticker.
C10_TickerUppercaseEverywhere ==
  pc = "Ready" =>
     /\ \A j \in 1..Len(loaderCalls) : loaderCalls[j][1] = upper(ticker_input)
     /\ \A c \in screen.charts : c.ticker = upper(ticker_input)
     /\ screen.download = {FileName(upper(ticker_input), time_period)}

====
